---- MODULE Spec2Model ----
(***************************************************************************)
(* Versioned deployment orchestrator (src/src/lambda-deployer.ts).         *)
(*                                                                         *)
(* One LambdaDeployer instance drives one deployable unit of a registry.   *)
(* Every `await` of the source is one step of the model: a workflow is a   *)
(* sequence of external calls, each of which the backend may fail, and     *)
(* overlapping workflows interleave at exactly those points.  The code     *)
(* between two awaits runs atomically (single-threaded event loop).        *)
(*                                                                         *)
(* Text is a sequence of one-character strings, so that the regular        *)
(* expressions and toString() of the source are computed, not assumed.     *)
(* Fractions (traffic weights, error rates) are exact: a weight is a pair  *)
(* <<numerator, denominator>>, an error rate is given in thousandths.      *)
(***************************************************************************)
EXTENDS Integers, Sequences, FiniteSets, TLC

(* ------------------------------ bounds -------------------------------- *)

\* overlapping invocations of the facade
NumProcs == 2
\* invocations started by callers in one behaviour; one that starts while
\* another is in flight counts twice
MaxCalls == 3
\* firings of registered promotion rules in one behaviour
MaxFires == 1
\* external calls that fail although the state of the backend allows them
MaxFaults == 2
\* periods of its rate() that a rule is followed through
MaxRefires == 2

Procs == 1..NumProcs

(* ------------------------- program constants -------------------------- *)

MaxCodeSize == 52428800
MaxNameLen == 64
MinDuration == 1
MaxDuration == 1440
MinTraffic == 1
MaxTraffic == 100
maxRetries == 3
BackoffUnit == 2000

(* ------------------------------- text --------------------------------- *)

Lower == {"a","b","c","d","e","f","g","h","i","j","k","l","m",
          "n","o","p","q","r","s","t","u","v","w","x","y","z"}
Upper == {"A","B","C","D","E","F","G","H","I","J","K","L","M",
          "N","O","P","Q","R","S","T","U","V","W","X","Y","Z"}
Digit == {"0","1","2","3","4","5","6","7","8","9"}
DigitChars == <<"0","1","2","3","4","5","6","7","8","9">>

\* the character class [a-zA-Z0-9-_]
NameChar(c) == c \in Lower \cup Upper \cup Digit \cup {"-", "_"}

\* /^[a-zA-Z0-9-_]+$/.test(s)
MatchesName(s) == Len(s) >= 1 /\ \A i \in 1..Len(s) : NameChar(s[i])

\* /^\d+$/.test(s)
MatchesDigits(s) == Len(s) >= 1 /\ \A i \in 1..Len(s) : s[i] \in Digit

\* Number.prototype.toString() of a non-negative integer
RECURSIVE ToStr(_)
ToStr(n) == IF n < 10 THEN <<DigitChars[n + 1]>>
            ELSE ToStr(n \div 10) \o <<DigitChars[(n % 10) + 1]>>

\* an absent (undefined or empty) text value
Undef == <<>>

(* ---------------------------- validators ------------------------------ *)

NameCharsMsg == "Function name must contain only alphanumeric characters, hyphens, and underscores"
NameLenMsg == "Function name must be 64 characters or less"
CanaryNameMsg == "Invalid function name: must contain only alphanumeric characters, hyphens, and underscores"
DurationMsg == "Duration must be between 1 and 1440 minutes (24 hours)"
TrafficMsg == "Traffic percentage must be between 1 and 100"
ErrorRateMsg == "Error rate must be between 0 and 1"
LatencyMsg == "Latency must be positive"
EmptyCodeMsg == "Function code cannot be empty"
CodeSizeMsg == "Function code size exceeds 50MB limit"
TargetVersionMsg == "Invalid target version: must be a positive integer"
PromotionFailedMsg == "Canary promotion failed after 3 attempts"
\* the message of an error raised by an external call
ServiceMsg == "ServiceException"
NoError == ""

\* a name check that refuses a name once it reaches the limit
validateFunctionNameShort(functionName) ==
    IF ~MatchesName(functionName) THEN NameCharsMsg
    ELSE IF Len(functionName) >= MaxNameLen THEN NameLenMsg
    ELSE NoError

\* validateFunctionName: the message of the error it throws, NoError if none
validateFunctionName(functionName) ==
    IF ~MatchesName(functionName) THEN NameCharsMsg
    ELSE IF Len(functionName) > MaxNameLen THEN NameLenMsg
    ELSE NoError

\* the value NaN of the type `number`, which the fields of CanaryConfig have;
\* every other number of the model is an integer
NaN == -1000000

\* a < b on numbers: false when either side is NaN
Less(a, b) == a # NaN /\ b # NaN /\ a < b

\* validateCanaryConfig; errorRate is in thousandths
validateCanaryConfig(config) ==
    IF ~MatchesName(config.functionName) THEN CanaryNameMsg
    ELSE IF Len(config.functionName) > MaxNameLen THEN NameLenMsg
    ELSE IF Less(config.duration, MinDuration) \/ Less(MaxDuration, config.duration)
        THEN DurationMsg
    ELSE IF Less(config.trafficPercent, MinTraffic) \/ Less(MaxTraffic, config.trafficPercent)
        THEN TrafficMsg
    ELSE IF Less(config.errorRate, 0) \/ Less(1000, config.errorRate) THEN ErrorRateMsg
    ELSE IF Less(config.latency, 0) THEN LatencyMsg
    ELSE NoError

\* code checks whose size limit is off by one byte
validateCodeOffByOne(size) ==
    IF size = 0 THEN EmptyCodeMsg
    ELSE IF size > MaxCodeSize + 1 THEN CodeSizeMsg
    ELSE NoError

\* the two code checks of deployWithVersioning; size is code.length
validateCode(size) ==
    IF size = 0 THEN EmptyCodeMsg
    ELSE IF size > MaxCodeSize THEN CodeSizeMsg
    ELSE NoError

\* the checks deployWithVersioning makes before its first external call
validateDeployment(functionName, size) ==
    IF validateFunctionName(functionName) # NoError THEN validateFunctionName(functionName)
    ELSE validateCode(size)

\* a version check that lets every token through
validateTargetVersionLax(targetVersion) == NoError

\* the version check of rollbackToVersion
validateTargetVersion(targetVersion) ==
    IF ~MatchesDigits(targetVersion) THEN TargetVersionMsg ELSE NoError

(* -------------------------- traffic weights --------------------------- *)

\* weights whose live share is computed from 99
TrafficWeightsShort(live, canary, canaryPercent) ==
    [a \in {canary, live} |->
        IF a = canary THEN <<canaryPercent, 100>> ELSE <<99 - canaryPercent, 100>>]

\* routingConfig.AdditionalVersionWeights of setupTrafficShifting
TrafficWeights(liveAlias, canaryAlias, canaryPercent) ==
    [a \in {canaryAlias, liveAlias} |->
        IF a = canaryAlias THEN <<canaryPercent, 100>> ELSE <<100 - canaryPercent, 100>>]

\* an update that carries the canary side only, leaving LIVE_PERCENT to a
\* second write
WeightVariablesCanaryOnly(liveAlias, canaryAlias, canaryPercent) ==
    [TRAFFIC_WEIGHTS |-> TrafficWeights(liveAlias, canaryAlias, canaryPercent),
     CANARY_PERCENT |-> ToStr(canaryPercent)]

\* the Environment.Variables that setupTrafficShifting sends
WeightVariables(liveAlias, canaryAlias, canaryPercent) ==
    [TRAFFIC_WEIGHTS |-> TrafficWeights(liveAlias, canaryAlias, canaryPercent),
     CANARY_PERCENT |-> ToStr(canaryPercent),
     LIVE_PERCENT |-> ToStr(100 - canaryPercent)]

\* a delay that does not grow with the attempt
BackoffDelayFlat(attempt) == BackoffUnit

\* the delay of promoteCanary after its attempt-th failure
BackoffDelay(attempt) == attempt * BackoffUnit

(* ------------------------------- state -------------------------------- *)

VARIABLES
    proc,       \* proc[p]: the invocation running in slot p (0: the promotion handler)
    code,       \* registry: byte size of the unit's unpublished code
    variables,  \* registry: the unit's environment map
    versions,   \* registry: the published versions, in creation order
    aliases,    \* alias directory: the set of aliases of the unit
    rules,      \* event scheduler: the registered rules
    accountId,  \* the account id cached by the LambdaDeployer instance
    clock,      \* the last reading of Date.now()
    ncalls,     \* invocations started so far
    nfires,     \* rule firings so far
    nfaults,    \* external calls failed by the backend for no reason of its state
    last,       \* the outcome of the facade invocation that returned last
    failover    \* a MultiRegionManager and its executeWithFailover call

vars == <<proc, code, variables, versions, aliases, rules, accountId, clock, ncalls, nfires, nfaults, last,
          failover>>
backend == <<code, variables, versions, aliases, rules, accountId, clock>>

Handler == 0
AllProcs == {Handler} \cup Procs

AutoDetect == "auto-detect"
KnownAccount == "987654321098"
NoAccount == ""
LiveAlias == "live"
CanaryAlias == "canary"
NoAlias == ""

\* alias names mixed up
aliasNameCanary == CanaryAlias
canaryAliasLive == LiveAlias

\* const aliasName = 'live' of blueGreenDeploy and rollbackToVersion
aliasName == LiveAlias
\* const canaryAlias = 'canary' and const liveAlias = 'live' of canaryDeploy
canaryAlias == CanaryAlias
liveAlias == LiveAlias

\* the environment map of a unit that has none, and the one callers supply
NoVariables == [k \in {} |-> Undef]
CallerVariables == [STAGE |-> <<"p", "r", "o", "d">>]

NoResult == [kind |-> "none", success |-> FALSE, version |-> Undef, alias |-> NoAlias,
             error |-> NoError, metrics |-> <<>>]
NoHistory == [versions |-> <<>>, currentVersion |-> Undef, liveVersion |-> Undef]

\* what is remembered of an invocation that has returned
NoOutcome == [op |-> "none", success |-> FALSE, version |-> Undef]
Outcome(r) == [op |-> r.op, success |-> r.res.success, version |-> r.res.version]

\* log: the external calls issued so far; failed: the positions in log of
\* those that failed; prev: the value of `last` when the invocation began
IdleProc == [op |-> "none", pc |-> "idle", fn |-> Undef, size |-> 0, cfg |-> FALSE,
             pct |-> 0, dur |-> 0, err |-> 0, lat |-> 0, target |-> Undef,
             ver |-> Undef, attempt |-> 0, rule |-> 0, log |-> <<>>, failed |-> {},
             prev |-> NoOutcome,
             deployment |-> NoResult, res |-> NoResult, hist |-> NoHistory]

(* inputs of the facade *)
GoodName == <<"f", "n", "-", "1">>
BadName == <<"a", "/", "b">>
Names == {GoodName, BadName}
Sizes == {0, MaxCodeSize, MaxCodeSize + 1}
CanaryParams ==
    { [trafficPercent |-> 30, duration |-> 5, errorRate |-> 10, latency |-> 1000],
      [trafficPercent |-> 100, duration |-> 1440, errorRate |-> 1000, latency |-> 0],
      [trafficPercent |-> 0, duration |-> 5, errorRate |-> 10, latency |-> 1000],
      [trafficPercent |-> 30, duration |-> 1441, errorRate |-> 10, latency |-> 1000],
      [trafficPercent |-> 30, duration |-> 5, errorRate |-> 1001, latency |-> 1000],
      [trafficPercent |-> 30, duration |-> 5, errorRate |-> 10, latency |-> -1] }
Targets == {<<"1">>, <<"7">>, <<"v", "1">>, Undef}

(* ------------------------- MultiRegionManager -------------------------- *)

\* regions a manager is configured with at most
MaxRegions == 2
\* the largest maxRetries a manager or a call is given
MaxRetriesTried == 3

\* `priority || 999`
DefaultPriority == 999
\* a RegionConfig without `priority`
NoPriority == -1
\* executeWithFailover called without `maxRetries`
NoOption == -2

RegionPool == <<"us-east-1", "us-west-2", "eu-west-1", "ap-southeast-1">>
RegionNames == {RegionPool[i] : i \in 1..MaxRegions}
Priorities == {NoPriority, 0, 1, 2}
RegionConfig == [region : RegionNames, priority : Priorities]

\* the `regions` arrays of a MultiRegionConfig: no region twice
Distinct(s) == \A i, j \in 1..Len(s) : s[i].region = s[j].region => i = j
RegionConfigs ==
    {s \in UNION {[1..n -> RegionConfig] : n \in 0..MaxRegions} : Distinct(s)}

\* region.priority || 999: a missing priority and priority 0 both give 999
EffectivePriority(r) ==
    IF r.priority = NoPriority \/ r.priority = 0 THEN DefaultPriority ELSE r.priority

\* Array.prototype.sort with the comparator a - b, on <<key, element>> pairs:
\* ascending and stable
RECURSIVE InsertSorted(_, _)
InsertSorted(x, s) ==
    IF s = <<>> THEN <<x>>
    ELSE IF x[1] < Head(s)[1] THEN <<x>> \o s
    ELSE <<Head(s)>> \o InsertSorted(x, Tail(s))

RECURSIVE SortPairs(_)
SortPairs(s) ==
    IF s = <<>> THEN <<>>
    ELSE InsertSorted(s[Len(s)], SortPairs(SubSeq(s, 1, Len(s) - 1)))

Elements(pairs) == [i \in 1..Len(pairs) |-> pairs[i][2]]

\* the constructor sorts config.regions in place
SortedRegions(regions) ==
    Elements(SortPairs([i \in 1..Len(regions) |->
                           <<EffectivePriority(regions[i]), regions[i]>>]))

\* .filter(item => item.client !== undefined)
RECURSIVE WithClient(_, _)
WithClient(items, clients) ==
    IF items = <<>> THEN <<>>
    ELSE (IF Head(items).region \in clients THEN <<Head(items)>> ELSE <<>>)
         \o WithClient(Tail(items), clients)

\* getAllClients: map to {client, region, priority || 999}, drop the regions
\* without a client, sort by priority
getAllClients(regions, clients) ==
    LET items == [i \in 1..Len(regions) |->
                     [region |-> regions[i].region,
                      priority |-> EffectivePriority(regions[i])]]
        kept == WithClient(items, clients)
    IN Elements(SortPairs([i \in 1..Len(kept) |-> <<kept[i].priority, kept[i]>>]))

\* the errors executeWithFailover throws
NoClientsError == <<"No available clients in any region">>
OperationError(attempt) == <<"operation failed", attempt>>
OperationValue(attempt) == <<"result", attempt>>

NoManager == [pc |-> "none", regions |-> <<>>, clients |-> {}, maxRetries |-> 0,
              retries |-> 0, notify |-> FALSE, attempt |-> 0, lastError |-> Undef,
              invoked |-> <<>>, notified |-> <<>>, outcome |-> Undef]

Init ==
    /\ proc = [p \in AllProcs |-> IdleProc]
    /\ code = 0
    /\ variables = NoVariables
    /\ versions = <<>>
    /\ aliases = {}
    /\ rules = {}
    /\ accountId \in {AutoDetect, KnownAccount}
    /\ clock = 0
    /\ ncalls = 0
    /\ nfires = 0
    /\ nfaults = 0
    /\ last = NoOutcome
    /\ failover = NoManager

(* ------------------------------ results ------------------------------- *)

\* a catch block that rethrows instead of returning
FailedResultRaised(message) ==
    [kind |-> "thrown", success |-> FALSE, version |-> Undef, alias |-> NoAlias,
     error |-> message, metrics |-> <<>>]

\* a catch block that fills in the metrics
FailedResultWithMetrics(message) ==
    [kind |-> "returned", success |-> FALSE, version |-> Undef, alias |-> NoAlias,
     error |-> message, metrics |-> <<0>>]

\* the value built by the catch blocks of the workflows
FailedResult(message) ==
    [kind |-> "returned", success |-> FALSE, version |-> Undef, alias |-> NoAlias,
     error |-> message, metrics |-> <<>>]

\* the value deployWithVersioning returns after the publish
DeployedResult(version, size) ==
    [kind |-> "returned", success |-> TRUE, version |-> version, alias |-> NoAlias,
     error |-> NoError, metrics |-> <<size>>]

\* { ...deployment, alias: aliasName }
WithAlias(deployment, name) == [deployment EXCEPT !.alias = name]

\* the value rollbackToVersion returns after the alias update
RolledBackResult(targetVersion) ==
    [kind |-> "returned", success |-> TRUE, version |-> targetVersion, alias |-> LiveAlias,
     error |-> NoError, metrics |-> <<>>]

\* an error that leaves the invocation
Thrown(message) ==
    [kind |-> "thrown", success |-> FALSE, version |-> Undef, alias |-> NoAlias,
     error |-> message, metrics |-> <<>>]

\* a promise resolved with no value
Resolved == [NoResult EXCEPT !.kind = "returned", !.success = TRUE]

Finish(r, result) == [r EXCEPT !.pc = "done", !.res = result]
Issue(r, call) == [r EXCEPT !.log = Append(@, call)]
\* the call issued last has failed
Fail(r) == [r EXCEPT !.failed = @ \cup {Len(r.log)}]

(* ------------------------- registry and directory --------------------- *)

PublishedIds == {versions[i].Version : i \in 1..Len(versions)}
AliasExists(name) == \E a \in aliases : a.name = name
AliasVersions(name) == {a.ver : a \in {b \in aliases : b.name = name}}

\* a directory that issues the same version id again
NextVersionIdReused == ToStr(1)

\* the version id the registry issues next
NextVersionId == ToStr(Len(versions) + 1)

\* a directory that does not look the version up
CanUpdateAliasAnyVersion(name, ver) == AliasExists(name)

\* UpdateAlias succeeds only on an alias that exists, for a published version
CanUpdateAlias(name, ver) == AliasExists(name) /\ ver \in PublishedIds
\* an update that leaves an alias where its earlier writer put it
AliasesAfterUpdateFirstWins(name, ver) == aliases

AliasesAfterUpdate(name, ver) ==
    {a \in aliases : a.name # name} \cup {[name |-> name, ver |-> ver]}

\* CreateAlias succeeds only for a name not yet taken, for a published version
CanCreateAlias(name, ver) == ~AliasExists(name) /\ ver \in PublishedIds

\* a create that also creates whichever of `live` and `canary` is absent
AliasesAfterCreatePair(name, ver) ==
    aliases \cup {[name |-> n, ver |-> ver] :
                      n \in {m \in {name, LiveAlias, CanaryAlias} : ~AliasExists(m)}}

AliasesAfterCreate(name, ver) == aliases \cup {[name |-> name, ver |-> ver]}

\* ListVersionsByFunction: the unpublished $LATEST entry, then the published ones
Latest == <<"$LATEST">>
ListedVersions == <<Latest>> \o [i \in 1..Len(versions) |-> versions[i].Version]

Last(seq) == IF Len(seq) = 0 THEN Undef ELSE seq[Len(seq)]

(* ----------------------- deployWithVersioning ------------------------- *)

Set(p, r) == proc' = [proc EXCEPT ![p] = r]
\* an invocation that has ended hands its outcome to its caller before
\* anything else happens
Settled == \A q \in AllProcs : proc[q].pc # "done"
At(p, pc) == Settled /\ proc[p].pc = pc
Free(p) == At(p, "idle")

\* what an invocation started in slot p counts against MaxCalls
Cost(p) == IF \E q \in Procs \ {p} : ~Free(q) THEN 2 ELSE 1

\* a caller starts an invocation in the first free slot
CanCall(p) ==
    /\ p \in Procs
    /\ Free(p)
    /\ \A q \in Procs : q < p => ~Free(q)
    /\ ncalls + Cost(p) <= MaxCalls

\* the outcome of an external call: it succeeds, or it fails; a call the
\* backend could have served fails only by a fault (throttling, network)
Succeeds == nfaults' = nfaults
Fails(servable) ==
    IF servable THEN nfaults < MaxFaults /\ nfaults' = nfaults + 1
    ELSE nfaults' = nfaults

\* the checks blueGreenDeploy makes, its own and those of deployWithVersioning
BlueGreenChecks(functionName, size) ==
    IF validateFunctionName(functionName) # NoError THEN validateFunctionName(functionName)
    ELSE validateDeployment(functionName, size)

\* the checks canaryDeploy makes, its own and those of deployWithVersioning
CanaryChecks(config, size) ==
    IF validateCanaryConfig(config) # NoError THEN validateCanaryConfig(config)
    ELSE validateDeployment(config.functionName, size)

\* the checks rollbackToVersion makes
RollbackChecks(functionName, targetVersion) ==
    IF validateFunctionName(functionName) # NoError THEN validateFunctionName(functionName)
    ELSE validateTargetVersion(targetVersion)

\* the record of an invocation that begins
Fresh == [IdleProc EXCEPT !.prev = last]

\* entering a workflow: the checks run, and the first external call is issued
Enter(p, r, message, pc) ==
    /\ Set(p, IF message # NoError THEN Finish(r, FailedResult(message))
              ELSE [r EXCEPT !.pc = pc])
    /\ ncalls' = ncalls + Cost(p)
    /\ UNCHANGED <<backend, nfires, nfaults, last, failover>>

\* deployWithVersioning(config) with the unit name and the artifact drawn from
\* the sets given
DeployWithVersioningOf(p, names, sizes) ==
    /\ CanCall(p)
    /\ \E fn \in names, size \in sizes, cfg \in BOOLEAN :
         Enter(p, [Fresh EXCEPT !.op = "deployWithVersioning", !.fn = fn,
                                   !.size = size, !.cfg = cfg],
               validateDeployment(fn, size), "updateCode")

CallDeployWithVersioning(p) == DeployWithVersioningOf(p, Names, Sizes)

BlueGreenDeployOf(p, names, sizes) ==
    /\ CanCall(p)
    /\ \E fn \in names, size \in sizes, cfg \in BOOLEAN :
         Enter(p, [Fresh EXCEPT !.op = "blueGreenDeploy", !.fn = fn,
                                   !.size = size, !.cfg = cfg],
               BlueGreenChecks(fn, size), "updateCode")

CallBlueGreenDeploy(p) == BlueGreenDeployOf(p, Names, Sizes)

\* canaryDeploy(config, code) with the unit name, the artifact and the
\* parameters drawn from the sets given
CanaryDeployOf(p, names, sizes, params) ==
    /\ CanCall(p)
    /\ \E fn \in names, size \in sizes, c \in params :
         Enter(p, [Fresh EXCEPT !.op = "canaryDeploy", !.fn = fn, !.size = size,
                                !.pct = c.trafficPercent, !.dur = c.duration,
                                !.err = c.errorRate, !.lat = c.latency],
               CanaryChecks([functionName |-> fn] @@ c, size), "updateCode")

CallCanaryDeploy(p) == CanaryDeployOf(p, Names, Sizes, CanaryParams)

\* a calling workflow that goes on whatever deployWithVersioning returned
AfterDeploymentUnchecked(r, deployment) ==
    IF r.op = "blueGreenDeploy"
        THEN [r EXCEPT !.pc = "getAlias", !.deployment = deployment]
    ELSE IF r.op = "canaryDeploy"
        THEN [r EXCEPT !.pc = "updateCanary", !.deployment = deployment]
    ELSE Finish(r, deployment)

\* what follows the return of deployWithVersioning in the calling workflow
AfterDeployment(r, deployment) ==
    IF r.op = "blueGreenDeploy" /\ deployment.success /\ deployment.version # Undef
        THEN [r EXCEPT !.pc = "getAlias", !.deployment = deployment]
    ELSE IF r.op = "canaryDeploy" /\ deployment.success /\ deployment.version # Undef
        THEN [r EXCEPT !.pc = "updateCanary", !.deployment = deployment]
    ELSE Finish(r, deployment)

UpdateFunctionCode(p) ==
    /\ At(p, "updateCode")
    /\ LET r == Issue(proc[p], <<"UpdateFunctionCode">>) IN
       \/ /\ Succeeds
          /\ code' = r.size
          /\ Set(p, [r EXCEPT !.pc = IF r.cfg THEN "updateConfig" ELSE "publish"])
       \/ /\ Fails(TRUE)
          /\ code' = code
          /\ Set(p, AfterDeployment(Fail(r), FailedResult(ServiceMsg)))
    /\ UNCHANGED <<variables, versions, aliases, rules, accountId, clock, ncalls, nfires, last, failover>>

UpdateFunctionConfiguration(p) ==
    /\ At(p, "updateConfig")
    /\ LET r == Issue(proc[p], <<"UpdateFunctionConfiguration">>) IN
       \/ /\ Succeeds
          /\ variables' = CallerVariables
          /\ Set(p, [r EXCEPT !.pc = "publish"])
       \/ /\ Fails(TRUE)
          /\ variables' = variables
          /\ Set(p, AfterDeployment(Fail(r), FailedResult(ServiceMsg)))
    /\ UNCHANGED <<code, versions, aliases, rules, accountId, clock, ncalls, nfires, last, failover>>

\* a publish step that puts the earlier code back when it fails
PublishVersionUndo(p) ==
    /\ At(p, "publish")
    /\ LET r == Issue(proc[p], <<"PublishVersion">>) IN
       \/ /\ Succeeds
          /\ versions' = Append(versions, [Version |-> NextVersionId, CodeSize |-> code])
          /\ code' = code
          /\ Set(p, [r EXCEPT !.pc = "metrics", !.ver = NextVersionId])
       \/ /\ Fails(TRUE)
          /\ versions' = versions
          /\ code' = 0
          /\ Set(p, AfterDeployment(Fail(r), FailedResult(ServiceMsg)))
    /\ UNCHANGED <<variables, aliases, rules, accountId, clock, ncalls, nfires, last, failover>>

PublishVersion(p) ==
    /\ At(p, "publish")
    /\ LET r == Issue(proc[p], <<"PublishVersion">>) IN
       \/ /\ Succeeds
          /\ versions' = Append(versions, [Version |-> NextVersionId, CodeSize |-> code])
          /\ Set(p, [r EXCEPT !.pc = "metrics", !.ver = NextVersionId])
       \/ /\ Fails(TRUE)
          /\ versions' = versions
          /\ Set(p, AfterDeployment(Fail(r), FailedResult(ServiceMsg)))
    /\ UNCHANGED <<code, variables, aliases, rules, accountId, clock, ncalls, nfires, last, failover>>

\* trackDeploymentMetrics: the outcome of PutMetricData is ignored
TrackDeploymentMetrics(p) ==
    /\ At(p, "metrics")
    /\ LET r == Issue(proc[p], <<"PutMetricData">>) IN
       \/ /\ Succeeds
          /\ Set(p, AfterDeployment(r, DeployedResult(r.ver, r.size)))
       \/ /\ Fails(TRUE)
          /\ Set(p, AfterDeployment(Fail(r),
                                    DeployedResult(r.ver, r.size)))
    /\ UNCHANGED <<backend, ncalls, nfires, last, failover>>

(* --------------------------- blueGreenDeploy -------------------------- *)

\* GetAliasCommand for `live`: a failed read sends the workflow to the create
GetLiveAlias(p) ==
    /\ At(p, "getAlias")
    /\ LET r == Issue(proc[p], <<"GetAlias", aliasName>>) IN
       \/ /\ AliasExists(aliasName)
          /\ Succeeds
          /\ Set(p, [r EXCEPT !.pc = "updateLive"])
       \/ /\ Fails(AliasExists(aliasName))
          /\ Set(p, [Fail(r) EXCEPT !.pc = "createLive"])
    /\ UNCHANGED <<backend, ncalls, nfires, last, failover>>

UpdateLiveAlias(p) ==
    /\ At(p, "updateLive")
    /\ LET r == Issue(proc[p], <<"UpdateAlias", aliasName, proc[p].deployment.version>>) IN
       \/ /\ CanUpdateAlias(aliasName, r.deployment.version)
          /\ Succeeds
          /\ aliases' = AliasesAfterUpdate(aliasName, r.deployment.version)
          /\ Set(p, Finish(r, WithAlias(r.deployment, aliasName)))
       \/ /\ Fails(CanUpdateAlias(aliasName, r.deployment.version))
          /\ aliases' = aliases
          /\ Set(p, [Fail(r) EXCEPT !.pc = "createLive"])
    /\ UNCHANGED <<code, variables, versions, rules, accountId, clock, ncalls, nfires, last, failover>>

\* an alias step whose failure is passed over
LiveAliasFailedQuiet(r) == Finish(r, WithAlias(r.deployment, aliasName))

\* the create has failed too: the catch of blueGreenDeploy returns the error
LiveAliasFailed(r) == Finish(r, FailedResult(ServiceMsg))

CreateLiveAlias(p) ==
    /\ At(p, "createLive")
    /\ LET r == Issue(proc[p], <<"CreateAlias", aliasName, proc[p].deployment.version>>) IN
       \/ /\ CanCreateAlias(aliasName, r.deployment.version)
          /\ Succeeds
          /\ aliases' = AliasesAfterCreate(aliasName, r.deployment.version)
          /\ Set(p, Finish(r, WithAlias(r.deployment, aliasName)))
       \/ /\ Fails(CanCreateAlias(aliasName, r.deployment.version))
          /\ aliases' = aliases
          /\ Set(p, LiveAliasFailed(Fail(r)))
    /\ UNCHANGED <<code, variables, versions, rules, accountId, clock, ncalls, nfires, last, failover>>

(* ----------------------------- canaryDeploy --------------------------- *)

UpdateCanaryAlias(p) ==
    /\ At(p, "updateCanary")
    /\ LET r == Issue(proc[p], <<"UpdateAlias", canaryAlias, proc[p].deployment.version>>) IN
       \/ /\ CanUpdateAlias(canaryAlias, r.deployment.version)
          /\ Succeeds
          /\ aliases' = AliasesAfterUpdate(canaryAlias, r.deployment.version)
          /\ Set(p, [r EXCEPT !.pc = "setWeights"])
       \/ /\ Fails(CanUpdateAlias(canaryAlias, r.deployment.version))
          /\ aliases' = aliases
          /\ Set(p, [Fail(r) EXCEPT !.pc = "createCanary"])
    /\ UNCHANGED <<code, variables, versions, rules, accountId, clock, ncalls, nfires, last, failover>>

CreateCanaryAlias(p) ==
    /\ At(p, "createCanary")
    /\ LET r == Issue(proc[p], <<"CreateAlias", canaryAlias, proc[p].deployment.version>>) IN
       \/ /\ CanCreateAlias(canaryAlias, r.deployment.version)
          /\ Succeeds
          /\ aliases' = AliasesAfterCreate(canaryAlias, r.deployment.version)
          /\ Set(p, [r EXCEPT !.pc = "setWeights"])
       \/ /\ Fails(CanCreateAlias(canaryAlias, r.deployment.version))
          /\ aliases' = aliases
          /\ Set(p, Finish(Fail(r), FailedResult(ServiceMsg)))
    /\ UNCHANGED <<code, variables, versions, rules, accountId, clock, ncalls, nfires, last, failover>>

\* a setupTrafficShifting that lets the error reach the catch of canaryDeploy
WeightsFailedRaised(r) == Finish(r, FailedResult(ServiceMsg))

\* the empty catch of setupTrafficShifting: canaryDeploy goes on
WeightsFailed(r) == [r EXCEPT !.pc = "getAccountId"]

\* a weight write that keeps the entries the environment map already has
SetupTrafficShiftingMerged(p) ==
    /\ At(p, "setWeights")
    /\ LET r == Issue(proc[p], <<"UpdateFunctionConfiguration">>) IN
       \/ /\ Succeeds
          /\ variables' = WeightVariables(liveAlias, canaryAlias, r.pct) @@ variables
          /\ Set(p, [r EXCEPT !.pc = "getAccountId"])
       \/ /\ Fails(TRUE)
          /\ variables' = variables
          /\ Set(p, WeightsFailed(Fail(r)))
    /\ UNCHANGED <<code, versions, aliases, rules, accountId, clock, ncalls, nfires, last, failover>>

\* setupTrafficShifting: one configuration update, its failure swallowed
SetupTrafficShifting(p) ==
    /\ At(p, "setWeights")
    /\ LET r == Issue(proc[p], <<"UpdateFunctionConfiguration">>) IN
       \/ /\ Succeeds
          /\ variables' = WeightVariables(liveAlias, canaryAlias, r.pct)
          /\ Set(p, [r EXCEPT !.pc = "getAccountId"])
       \/ /\ Fails(TRUE)
          /\ variables' = variables
          /\ Set(p, WeightsFailed(Fail(r)))
    /\ UNCHANGED <<code, versions, aliases, rules, accountId, clock, ncalls, nfires, last, failover>>

\* what canaryDeploy returns once scheduleCanaryPromotion has resolved
CanaryResult(r) == Finish(r, WithAlias(r.deployment, canaryAlias))

\* a scheduleCanaryPromotion that lets the error reach the catch of canaryDeploy
ScheduleFailedRaised(r) == Finish(r, FailedResult(ServiceMsg))

\* the empty catch of scheduleCanaryPromotion: it resolves all the same
ScheduleFailed(r) == CanaryResult(r)

\* getAccountId inside scheduleCanaryPromotion: the cached id, or one STS call
\* whose answer is cached (an answer without Account included); any error ends
\* the scheduling, silently
GetAccountId(p) ==
    /\ At(p, "getAccountId")
    /\ IF accountId = AutoDetect
       THEN LET r == Issue(proc[p], <<"GetCallerIdentity">>) IN
            \/ /\ Succeeds
               /\ accountId' = KnownAccount
               /\ Set(p, [r EXCEPT !.pc = "putRule"])
            \/ /\ Fails(TRUE)
               /\ accountId' = NoAccount
               /\ Set(p, ScheduleFailed(Fail(r)))
            \/ /\ Fails(TRUE)
               /\ accountId' = accountId
               /\ Set(p, ScheduleFailed(Fail(r)))
       ELSE /\ Succeeds
            /\ accountId' = accountId
            /\ Set(p, IF accountId = NoAccount THEN ScheduleFailed(proc[p])
                      ELSE [proc[p] EXCEPT !.pc = "putRule"])
    /\ UNCHANGED <<code, variables, versions, aliases, rules, clock, ncalls, nfires, last, failover>>

\* a reading of Date.now(): the millisecond of the last reading, or a later one
Readings == {clock + 1} \cup (IF clock > 0 THEN {clock} ELSE {})

RuleNamed(name) == {x \in rules : x.name = name}

\* PutRule creates the rule, or overwrites the rule of that name keeping its target
RulesAfterPutRule(name, minutes, version) ==
    {x \in rules : x.name # name}
    \cup {[name |-> name, minutes |-> minutes, description |-> version,
           target |-> IF RuleNamed(name) = {} THEN Undef
                      ELSE (CHOOSE x \in RuleNamed(name) : TRUE).target,
           fired |-> IF RuleNamed(name) = {} THEN 0
                     ELSE (CHOOSE x \in RuleNamed(name) : TRUE).fired]}

\* PutTargets sets the one target (Id '1') of the rule
RulesAfterPutTargets(name, version) ==
    {x \in rules : x.name # name}
    \cup {[x EXCEPT !.target = version] : x \in RuleNamed(name)}

PutRule(p) ==
    /\ At(p, "putRule")
    /\ \E t \in Readings :
         LET r == Issue(proc[p], <<"PutRule">>) IN
         /\ clock' = t
         /\ \/ /\ Succeeds
               /\ rules' = RulesAfterPutRule(t, r.dur, r.deployment.version)
               /\ Set(p, [r EXCEPT !.pc = "putTargets", !.rule = t])
            \/ /\ Fails(TRUE)
               /\ rules' = rules
               /\ Set(p, ScheduleFailed(Fail(r)))
    /\ UNCHANGED <<code, variables, versions, aliases, accountId, ncalls, nfires, last, failover>>

PutTargets(p) ==
    /\ At(p, "putTargets")
    /\ LET r == Issue(proc[p], <<"PutTargets">>) IN
       \/ /\ Succeeds
          /\ rules' = RulesAfterPutTargets(r.rule, r.deployment.version)
          /\ Set(p, CanaryResult(r))
       \/ /\ Fails(TRUE)
          /\ rules' = rules
          /\ Set(p, ScheduleFailed(Fail(r)))
    /\ UNCHANGED <<code, variables, versions, aliases, accountId, clock, ncalls, nfires, last, failover>>

(* --------------------------- rollbackToVersion ------------------------ *)

RollbackToVersionOf(p, names, targets) ==
    /\ CanCall(p)
    /\ \E fn \in names, target \in targets :
         Enter(p, [Fresh EXCEPT !.op = "rollbackToVersion", !.fn = fn, !.target = target],
               RollbackChecks(fn, target), "rollback")

CallRollbackToVersion(p) == RollbackToVersionOf(p, Names, Targets)

\* a rollback that moves every alias of the unit
AliasesAfterRollbackAll(targetVersion) ==
    {[name |-> a.name, ver |-> targetVersion] : a \in aliases}

\* UpdateAliasCommand {Name: aliasName, FunctionVersion: targetVersion}
AliasesAfterRollback(targetVersion) == AliasesAfterUpdate(aliasName, targetVersion)

\* the single UpdateAlias of rollbackToVersion
RollbackAlias(p) ==
    /\ At(p, "rollback")
    /\ LET r == Issue(proc[p], <<"UpdateAlias", aliasName, proc[p].target>>) IN
       \/ /\ CanUpdateAlias(aliasName, r.target)
          /\ Succeeds
          /\ aliases' = AliasesAfterRollback(r.target)
          /\ Set(p, Finish(r, RolledBackResult(r.target)))
       \/ /\ Fails(CanUpdateAlias(aliasName, r.target))
          /\ aliases' = aliases
          /\ Set(p, Finish(Fail(r), FailedResult(ServiceMsg)))
    /\ UNCHANGED <<code, variables, versions, rules, accountId, clock, ncalls, nfires, last, failover>>

(* -------------------------- getDeploymentHistory ---------------------- *)

\* the catch of getDeploymentHistory rethrows: `Failed to get deployment
\* history: <message>`; the record keeps <message>
HistoryFailure(message) == Thrown(message)

GetDeploymentHistoryOf(p, names) ==
    /\ CanCall(p)
    /\ \E fn \in names :
         LET r == [Fresh EXCEPT !.op = "getDeploymentHistory", !.fn = fn] IN
         /\ Set(p, IF validateFunctionName(fn) # NoError
                   THEN Finish(r, HistoryFailure(validateFunctionName(fn)))
                   ELSE [r EXCEPT !.pc = "listVersions"])
         /\ ncalls' = ncalls + Cost(p)
         /\ UNCHANGED <<backend, nfires, nfaults, last, failover>>

CallGetDeploymentHistory(p) == GetDeploymentHistoryOf(p, Names)

ListVersions(p) ==
    /\ At(p, "listVersions")
    /\ LET r == Issue(proc[p], <<"ListVersionsByFunction">>) IN
       \/ /\ Succeeds
          /\ Set(p, [r EXCEPT !.pc = "getLive", !.hist.versions = ListedVersions,
                              !.hist.currentVersion = Last(ListedVersions)])
       \/ /\ Fails(TRUE)
          /\ Set(p, Finish(Fail(r), HistoryFailure(ServiceMsg)))
    /\ UNCHANGED <<backend, ncalls, nfires, last, failover>>

\* the read of `live`: its version, or on any failure the last listed version
ResolveLiveVersion(p) ==
    /\ At(p, "getLive")
    /\ LET r == Issue(proc[p], <<"GetAlias", LiveAlias>>) IN
       \/ /\ Succeeds
          /\ \E v \in AliasVersions(LiveAlias) :
               Set(p, Finish([r EXCEPT !.hist.liveVersion = v], Resolved))
       \/ /\ Fails(AliasExists(LiveAlias))
          /\ Set(p, Finish([Fail(r) EXCEPT !.hist.liveVersion = Last(r.hist.versions)], Resolved))
    /\ UNCHANGED <<backend, ncalls, nfires, last, failover>>

(* ------------------------ promotion rule and handler ------------------ *)

\* a one-shot timer: firing removes the rule
FireUpToOnce(most) ==
    /\ Free(Handler)
    /\ nfires < most
    /\ \E x \in rules :
         /\ x.target # Undef
         /\ Set(Handler, [IdleProc EXCEPT !.op = "promoteCanary", !.pc = "promote",
                                          !.ver = x.target, !.rule = x.name])
         /\ rules' = rules \ {x}
    /\ nfires' = nfires + 1
    /\ UNCHANGED <<code, variables, versions, aliases, accountId, clock, ncalls, nfaults, last, failover>>

\* a registered rule fires: its target receives {action: 'promoteCanary',
\* functionName, version} and runs promoteCanary(functionName, version).
\* The rule has a rate() expression and stays ENABLED: firing does not remove
\* it. `fired` counts the firings of a rule.
FireUpTo(most) ==
    /\ Free(Handler)
    /\ nfires < most
    /\ \E x \in rules :
         /\ x.target # Undef
         /\ Set(Handler, [IdleProc EXCEPT !.op = "promoteCanary", !.pc = "promote",
                                          !.ver = x.target, !.rule = x.name])
         /\ rules' = (rules \ {x}) \cup {[x EXCEPT !.fired = @ + 1]}
    /\ nfires' = nfires + 1
    /\ UNCHANGED <<code, variables, versions, aliases, accountId, clock, ncalls, nfaults, last, failover>>

Fire == FireUpTo(MaxFires)

\* a retry loop that ends quietly once its attempts are used up
PromotionExhaustedQuiet(r) == Finish(r, Resolved)

\* the third failure: `throw new Error(...)` leaves promoteCanary
PromotionExhausted(r) == Finish(r, Thrown(PromotionFailedMsg))

\* one pass of the retry loop of promoteCanary
PromoteCanary(p) ==
    /\ At(p, "promote")
    /\ LET r == Issue(proc[p], <<"UpdateAlias", LiveAlias, proc[p].ver>>)
           f == [Fail(r) EXCEPT !.attempt = @ + 1]
       IN
       \/ /\ CanUpdateAlias(LiveAlias, r.ver)
          /\ Succeeds
          /\ aliases' = AliasesAfterUpdate(LiveAlias, r.ver)
          /\ Set(p, Finish(r, Resolved))
       \/ /\ Fails(CanUpdateAlias(LiveAlias, r.ver))
          /\ aliases' = aliases
          /\ Set(p, IF f.attempt >= maxRetries
                    THEN PromotionExhausted(f)
                    ELSE [Issue(f, <<"setTimeout", BackoffDelay(f.attempt)>>)
                            EXCEPT !.pc = "backoff"])
    /\ UNCHANGED <<code, variables, versions, rules, accountId, clock, ncalls, nfires, last, failover>>

\* the timer of the retry loop elapses
Backoff(p) ==
    /\ At(p, "backoff")
    /\ Set(p, [proc[p] EXCEPT !.pc = "promote"])
    /\ UNCHANGED <<backend, ncalls, nfires, nfaults, last, failover>>

\* the caller takes the outcome; the slot is free again
Return(p) ==
    /\ proc[p].pc = "done"
    /\ Set(p, IdleProc)
    /\ last' = IF p \in Procs THEN Outcome(proc[p]) ELSE last
    /\ UNCHANGED <<backend, ncalls, nfires, nfaults, failover>>

(* --------------------------- specification ---------------------------- *)

Next ==
    \/ \E p \in Procs : CallDeployWithVersioning(p)
    \/ \E p \in Procs : CallBlueGreenDeploy(p)
    \/ \E p \in Procs : CallCanaryDeploy(p)
    \/ \E p \in Procs : CallRollbackToVersion(p)
    \/ \E p \in Procs : CallGetDeploymentHistory(p)
    \/ \E p \in Procs : UpdateFunctionCode(p)
    \/ \E p \in Procs : UpdateFunctionConfiguration(p)
    \/ \E p \in Procs : PublishVersion(p)
    \/ \E p \in Procs : TrackDeploymentMetrics(p)
    \/ \E p \in Procs : GetLiveAlias(p)
    \/ \E p \in Procs : UpdateLiveAlias(p)
    \/ \E p \in Procs : CreateLiveAlias(p)
    \/ \E p \in Procs : UpdateCanaryAlias(p)
    \/ \E p \in Procs : CreateCanaryAlias(p)
    \/ \E p \in Procs : SetupTrafficShifting(p)
    \/ \E p \in Procs : GetAccountId(p)
    \/ \E p \in Procs : PutRule(p)
    \/ \E p \in Procs : PutTargets(p)
    \/ \E p \in Procs : RollbackAlias(p)
    \/ \E p \in Procs : ListVersions(p)
    \/ \E p \in Procs : ResolveLiveVersion(p)
    \/ Fire
    \/ PromoteCanary(Handler)
    \/ Backoff(Handler)
    \/ \E p \in AllProcs : Return(p)

Spec == Init /\ [][Next]_vars

(* One canaryDeploy on a fresh unit, over every traffic percentage and the
   edges of the other parameter ranges. *)
SweepParams ==
    [trafficPercent : 0..101, duration : {0, 1, 1440, 1441},
     errorRate : {-1, 0, 1000, 1001}, latency : {-1, 0}]

SweepCanaryDeploy ==
    /\ ncalls = 0
    /\ CanaryDeployOf(1, {GoodName}, {MaxCodeSize}, SweepParams)

NextCanary ==
    \/ SweepCanaryDeploy
    \/ UpdateFunctionCode(1)
    \/ PublishVersion(1)
    \/ TrackDeploymentMetrics(1)
    \/ UpdateCanaryAlias(1)
    \/ CreateCanaryAlias(1)
    \/ SetupTrafficShifting(1)
    \/ GetAccountId(1)
    \/ PutRule(1)
    \/ PutTargets(1)
    \/ Return(1)

SpecCanary == Init /\ [][NextCanary]_vars

(* One invocation of each workflow on a fresh unit, over unit names of the
   lengths around the limits, with one character at either end taken from
   both sides of every edge of the character class. *)
SweepLengths == {1, 2, 63, 64, 65, 66}
SweepChars == {"a", "z", "A", "Z", "0", "9", "-", "_",
               "^", "{", "@", "[", "/", ":", " ", ".", "$", "\n"}
Pad(n) == [i \in 1..n |-> "x"]
SweepNames ==
    {Undef} \cup UNION {{[Pad(n) EXCEPT ![i] = c] : i \in {1, n}, c \in SweepChars} :
                          n \in SweepLengths}
ValidParams == {[trafficPercent |-> 30, duration |-> 5, errorRate |-> 10, latency |-> 1000]}

SweepDeployWithVersioning == ncalls = 0 /\ DeployWithVersioningOf(1, SweepNames, {MaxCodeSize})
SweepBlueGreenDeploy == ncalls = 0 /\ BlueGreenDeployOf(1, SweepNames, {MaxCodeSize})
SweepCanaryName == ncalls = 0 /\ CanaryDeployOf(1, SweepNames, {MaxCodeSize}, ValidParams)
SweepRollbackToVersion == ncalls = 0 /\ RollbackToVersionOf(1, SweepNames, {<<"7">>})
SweepGetDeploymentHistory == ncalls = 0 /\ GetDeploymentHistoryOf(1, SweepNames)

NextNames ==
    \/ SweepDeployWithVersioning
    \/ SweepBlueGreenDeploy
    \/ SweepCanaryName
    \/ SweepRollbackToVersion
    \/ SweepGetDeploymentHistory
    \/ Return(1)

SpecNames == Init /\ [][NextNames]_vars

(* One blueGreenDeploy and then one canaryDeploy on a fresh unit, and the
   rule of the canaryDeploy through several periods of its rate(). *)
TimerBlueGreenDeploy == ncalls = 0 /\ BlueGreenDeployOf(1, {GoodName}, {MaxCodeSize})
TimerCanaryDeploy == ncalls = 1 /\ CanaryDeployOf(1, {GoodName}, {MaxCodeSize}, ValidParams)
Refire == FireUpTo(MaxRefires)

NextTimer ==
    \/ TimerBlueGreenDeploy
    \/ TimerCanaryDeploy
    \/ UpdateFunctionCode(1)
    \/ UpdateFunctionConfiguration(1)
    \/ PublishVersion(1)
    \/ TrackDeploymentMetrics(1)
    \/ GetLiveAlias(1)
    \/ CreateLiveAlias(1)
    \/ UpdateCanaryAlias(1)
    \/ CreateCanaryAlias(1)
    \/ SetupTrafficShifting(1)
    \/ GetAccountId(1)
    \/ PutRule(1)
    \/ PutTargets(1)
    \/ Refire
    \/ PromoteCanary(Handler)
    \/ Backoff(Handler)
    \/ \E p \in AllProcs : Return(p)

SpecTimer == Init /\ [][NextTimer]_vars

(* The parameter check of canaryDeploy on a fresh unit, over the edges of
   the four ranges and the number that compares with nothing. *)
SweepNumbers ==
    [trafficPercent : {NaN, -1, 0, 1, 2, 50, 99, 100, 101},
     duration : {NaN, -1, 0, 1, 2, 1439, 1440, 1441},
     errorRate : {NaN, -1, 0, 1, 999, 1000, 1001},
     latency : {NaN, -1, 0, 1, 1000}]

SweepCanaryParams ==
    /\ ncalls = 0
    /\ CanaryDeployOf(1, {GoodName}, {MaxCodeSize}, SweepNumbers)

NextParams ==
    \/ SweepCanaryParams
    \/ Return(1)

SpecParams == Init /\ [][NextParams]_vars

(* One MultiRegionManager and one executeWithFailover on it, over region
   lists with and without priorities, with and without clients, and the
   retry limits from none up. *)
deployer == <<proc, code, variables, versions, aliases, rules, accountId, clock,
              ncalls, nfires, nfaults, last>>

\* new MultiRegionManager(config), or createMultiRegionSTSManager(config),
\* which also makes a client for every region of config
CreateManager ==
    /\ failover.pc = "none"
    /\ \E regions \in RegionConfigs, sts \in BOOLEAN, limit \in 0..MaxRetriesTried :
         failover' = [failover EXCEPT
                         !.pc = "ready",
                         !.regions = SortedRegions(regions),
                         !.clients = IF sts THEN {regions[i].region : i \in 1..Len(regions)}
                                     ELSE {},
                         !.maxRetries = limit]
    /\ UNCHANGED deployer

\* options.maxRetries ?? this.config.maxRetries
Retries(option, configured) == IF option = NoOption THEN configured ELSE option

CallExecuteWithFailover ==
    /\ failover.pc = "ready"
    /\ \E option \in {NoOption} \cup (-1..MaxRetriesTried), onFailover \in BOOLEAN :
         failover' = [failover EXCEPT
                         !.pc = "loop",
                         !.retries = Retries(option, failover.maxRetries),
                         !.notify = onFailover,
                         !.attempt = 0]
    /\ UNCHANGED deployer

Clients == getAllClients(failover.regions, failover.clients)

\* the loop condition attempt <= maxRetries is false: throw lastError
Exhausted ==
    /\ failover.pc = "loop"
    /\ ~(failover.attempt <= failover.retries)
    /\ failover' = [failover EXCEPT !.pc = "thrown", !.outcome = failover.lastError]
    /\ UNCHANGED deployer

\* clients.length === 0
NoClients ==
    /\ failover.pc = "loop"
    /\ failover.attempt <= failover.retries
    /\ Len(Clients) = 0
    /\ failover' = [failover EXCEPT !.pc = "thrown", !.outcome = NoClientsError]
    /\ UNCHANGED deployer

\* one pass of the loop up to its await: operation(client.client) resolves,
\* or rejects and the catch records the error and tells onFailover
Invoke ==
    /\ failover.pc = "loop"
    /\ failover.attempt <= failover.retries
    /\ Len(Clients) > 0
    /\ LET client == Clients[(failover.attempt % Len(Clients)) + 1]
           nextClient == Clients[((failover.attempt + 1) % Len(Clients)) + 1]
           error == OperationError(failover.attempt)
           f == [failover EXCEPT !.invoked = Append(@, client.region)]
       IN \/ failover' = [f EXCEPT !.pc = "returned",
                                   !.outcome = OperationValue(failover.attempt)]
          \/ failover' =
                IF failover.attempt < failover.retries
                THEN [f EXCEPT !.lastError = error,
                               !.pc = "wait",
                               !.notified = IF failover.notify
                                            THEN Append(@, <<client.region, nextClient.region, error>>)
                                            ELSE @]
                ELSE [f EXCEPT !.lastError = error, !.attempt = @ + 1]
    /\ UNCHANGED deployer

\* the retryDelay has passed: attempt++
Wait ==
    /\ failover.pc = "wait"
    /\ failover' = [failover EXCEPT !.pc = "loop", !.attempt = @ + 1]
    /\ UNCHANGED deployer

NextFailover ==
    \/ CreateManager
    \/ CallExecuteWithFailover
    \/ Exhausted
    \/ NoClients
    \/ Invoke
    \/ Wait

\* the operation settles and the timer of the delay expires
SpecFailover == Init /\ [][NextFailover]_vars /\ WF_vars(NextFailover)

(* ======================================================================= *)
(* Properties                                                              *)
(* ======================================================================= *)

(* the rules of the design document, stated apart from the validators *)
UnitNameChars == Lower \cup Upper \cup Digit \cup {"_", "-"}
UnitNameOk(name) ==
    /\ Len(name) >= 1
    /\ Len(name) <= 64
    /\ \A i \in 1..Len(name) : name[i] \in UnitNameChars
VersionTokenOk(token) == Len(token) >= 1 /\ \A i \in 1..Len(token) : token[i] \in Digit
CanaryParamsOk(r) ==
    /\ r.pct >= 1 /\ r.pct <= 100
    /\ r.dur >= 1 /\ r.dur <= 1440
    /\ r.err >= 0 /\ r.err <= 1000
    /\ r.lat >= 0
ArtifactOk(size) == size >= 1 /\ size <= 50 * 1024 * 1024

DeployOps == {"deployWithVersioning", "blueGreenDeploy", "canaryDeploy"}

\* the invocation r was given an input that validation must refuse
RejectedInput(r) ==
    \/ r.op \in DeployOps \cup {"rollbackToVersion", "getDeploymentHistory"} /\ ~UnitNameOk(r.fn)
    \/ r.op = "canaryDeploy" /\ ~CanaryParamsOk(r)
    \/ r.op = "rollbackToVersion" /\ ~VersionTokenOk(r.target)

Done(p) == proc[p].pc = "done"
CallFailed(r, call) == \E i \in r.failed : r.log[i][1] = call

\* C1: an invocation with a bad unit name, canary parameter or version token
\* ends at once, unsuccessfully, and has issued no external call.
C1_NoCallAfterFailedValidation ==
    \A p \in Procs :
        RejectedInput(proc[p]) =>
            /\ Done(p)
            /\ proc[p].log = <<>>
            /\ ~proc[p].res.success

C1_Witness ==
    \E p \in Procs :
        /\ Done(p)
        /\ proc[p].op = "rollbackToVersion"
        /\ UnitNameOk(proc[p].fn)
        /\ ~VersionTokenOk(proc[p].target)
        /\ proc[p].log = <<>>

\* C2: a deployment given an empty artifact or one above 50 MiB returns a
\* failed result at once and has issued no external call.
C2_NoCallForBadArtifact ==
    \A p \in Procs :
        proc[p].op \in DeployOps /\ ~ArtifactOk(proc[p].size) =>
            /\ Done(p)
            /\ proc[p].log = <<>>
            /\ proc[p].res.kind = "returned"
            /\ ~proc[p].res.success
            /\ proc[p].res.error # NoError

C2_Witness ==
    \E p \in Procs :
        /\ Done(p)
        /\ proc[p].op = "deployWithVersioning"
        /\ UnitNameOk(proc[p].fn)
        /\ proc[p].size > 50 * 1024 * 1024
        /\ proc[p].log = <<>>
        /\ ~proc[p].res.success

\* C3 as claimed: every public workflow ends by returning a value, never by
\* raising.
C3_NeverRaises ==
    \A p \in Procs : Done(p) => proc[p].res.kind = "returned"

\* C3: deployWithVersioning, blueGreenDeploy, canaryDeploy and
\* rollbackToVersion end by returning a result that is a success or carries
\* an error message; getDeploymentHistory raises exactly when the unit name
\* is refused or the version listing fails, and returns otherwise.
C3_ResultOrHistoryRaises ==
    \A p \in Procs :
        Done(p) =>
            IF proc[p].op = "getDeploymentHistory"
            THEN /\ proc[p].res.kind \in {"returned", "thrown"}
                 /\ proc[p].res.kind = "thrown" <=>
                        \/ ~UnitNameOk(proc[p].fn)
                        \/ CallFailed(proc[p], "ListVersionsByFunction")
            ELSE /\ proc[p].res.kind = "returned"
                 /\ proc[p].res.success <=> proc[p].res.error = NoError

C3_Witness ==
    \E p \in Procs :
        /\ Done(p)
        /\ proc[p].op = "getDeploymentHistory"
        /\ UnitNameOk(proc[p].fn)
        /\ CallFailed(proc[p], "ListVersionsByFunction")
        /\ proc[p].res.kind = "thrown"

\* C4 as claimed: the result of deployWithVersioning has its metrics set
\* whatever the outcome.
C4_MetricsWhateverOutcome ==
    \A p \in Procs :
        Done(p) /\ proc[p].op = "deployWithVersioning" /\ proc[p].log # <<>> =>
            proc[p].res.metrics # <<>>

\* C4: the result of deployWithVersioning has its metrics set, to the
\* artifact size, exactly when it is a success; a failed result, whichever
\* step failed, has success = false, the error message, and no metrics.
C4_MetricsOnSuccessOnly ==
    \A p \in Procs :
        Done(p) /\ proc[p].op = "deployWithVersioning" =>
            IF proc[p].res.success
            THEN proc[p].res.metrics = <<proc[p].size>>
            ELSE /\ proc[p].res.metrics = <<>>
                 /\ proc[p].res.error # NoError
                 /\ proc[p].res.version = Undef

C4_Witness ==
    \E p \in Procs :
        /\ Done(p)
        /\ proc[p].op = "deployWithVersioning"
        /\ CallFailed(proc[p], "PublishVersion")
        /\ ~proc[p].res.success
        /\ proc[p].res.metrics = <<>>

(* the alias upsert of a workflow: the step of slot p that wrote alias `name` *)
AliasesNamed(set, name) == {a \in set : a.name = name}
UpsertPcs(name) ==
    IF name = "live" THEN {"updateLive", "createLive"} ELSE {"updateCanary", "createCanary"}
UpsertSucceeded(p, name) ==
    /\ proc[p].pc \in UpsertPcs(name)
    /\ IF name = "live" THEN proc'[p].pc = "done" /\ proc'[p].res.success
       ELSE proc'[p].pc = "setWeights"
UpsertStep(p, name) ==
    UpsertSucceeded(p, name) =>
        /\ AliasesNamed(aliases', name) =
               {[name |-> name, ver |-> proc[p].deployment.version]}
        /\ proc[p].pc \in {"createLive", "createCanary"} => AliasesNamed(aliases, name) = {}
        /\ proc[p].pc \in {"updateLive", "updateCanary"} => AliasesNamed(aliases, name) # {}
        /\ \A other \in {"live", "canary"} \ {name} :
               AliasesNamed(aliases', other) = AliasesNamed(aliases, other)

\* C5: the alias step of blueGreenDeploy (`live`) and of canaryDeploy
\* (`canary`), when it succeeds, has created the alias if there was none and
\* updated it if there was one, and leaves exactly one alias of that name,
\* which points at the version just published.
C5_UpsertLeavesOneAlias ==
    [][\A p \in Procs : UpsertStep(p, "live") /\ UpsertStep(p, "canary")]_vars

C5_Witness ==
    \E p \in Procs :
        /\ proc[p].pc = "setWeights"
        /\ Last(proc[p].log) = <<"UpdateAlias", "canary", proc[p].deployment.version>>
        /\ proc[p].deployment.version = <<"2">>
        /\ AliasesNamed(aliases, "canary") = {[name |-> "canary", ver |-> <<"2">>]}

\* C6: a successful blueGreenDeploy that began after a successful
\* blueGreenDeploy had returned gives a version other than that one's, and
\* when it returns `live` points at the version it gives.
C6_SecondBlueGreen ==
    \A p \in Procs :
        /\ Done(p)
        /\ proc[p].op = "blueGreenDeploy"
        /\ proc[p].res.success
        /\ proc[p].prev.op = "blueGreenDeploy"
        /\ proc[p].prev.success
        => /\ proc[p].res.version # proc[p].prev.version
           /\ proc[p].res.alias = "live"
           /\ AliasesNamed(aliases, "live") =
                  {[name |-> "live", ver |-> proc[p].res.version]}

C6_Witness ==
    \E p \in Procs :
        /\ Done(p)
        /\ proc[p].op = "blueGreenDeploy"
        /\ proc[p].res.success
        /\ proc[p].prev.op = "blueGreenDeploy"
        /\ proc[p].prev.success
        /\ proc[p].prev.version = <<"1">>
        /\ proc[p].res.version = <<"2">>
        /\ proc[p].size = MaxCodeSize

(* reading back what setupTrafficShifting persisted *)
DigitValue(c) == CHOOSE d \in 0..9 : DigitChars[d + 1] = c
RECURSIVE ParseInt(_)
ParseInt(text) ==
    IF Len(text) = 0 THEN 0
    ELSE 10 * ParseInt(SubSeq(text, 1, Len(text) - 1)) + DigitValue(text[Len(text)])

HasWeights == "TRAFFIC_WEIGHTS" \in DOMAIN variables
IsFraction(w) == w[1] >= 0 /\ w[2] > 0 /\ w[1] <= w[2]

\* C7: the weights canaryDeploy persists for trafficPercent p in 1..100 have
\* the two participants canary = p/100 and live = (100-p)/100, each within
\* [0,1], summing to 1, and CANARY_PERCENT + LIVE_PERCENT = 100.
C7_WeightsSumToOne ==
    HasWeights =>
        LET w == variables["TRAFFIC_WEIGHTS"] IN
        /\ DOMAIN variables = {"TRAFFIC_WEIGHTS", "CANARY_PERCENT", "LIVE_PERCENT"}
        /\ DOMAIN w = {"canary", "live"}
        /\ IsFraction(w["canary"]) /\ IsFraction(w["live"])
        /\ w["canary"][2] = 100 /\ w["live"][2] = 100
        /\ w["canary"][1] + w["live"][1] = 100
        /\ ParseInt(variables["CANARY_PERCENT"]) = w["canary"][1]
        /\ ParseInt(variables["LIVE_PERCENT"]) = w["live"][1]
        /\ ParseInt(variables["CANARY_PERCENT"]) + ParseInt(variables["LIVE_PERCENT"]) = 100
        /\ proc[1].op = "canaryDeploy" =>
               /\ proc[1].pct \in 1..100
               /\ w["canary"] = <<proc[1].pct, 100>>
               /\ w["live"] = <<100 - proc[1].pct, 100>>

C7_Witness ==
    /\ HasWeights
    /\ proc[1].op = "canaryDeploy"
    /\ proc[1].pct = 30
    /\ variables["TRAFFIC_WEIGHTS"]["canary"] = <<30, 100>>
    /\ variables["TRAFFIC_WEIGHTS"]["live"] = <<70, 100>>

WeightsCall == "UpdateFunctionConfiguration"
ScheduleCalls == {"GetCallerIdentity", "PutRule", "PutTargets"}

\* the step in which the traffic-weight write of slot p fails
WeightWriteFails(p) ==
    /\ proc[p].pc = "setWeights"
    /\ proc'[p].pc # "setWeights"
    /\ CallFailed(proc'[p], WeightsCall)

\* C8: a canaryDeploy whose traffic-weight write failed still returns
\* success with alias `canary`, and the failed write leaves the persisted
\* environment as it was.
C8_WeightFailureSwallowed ==
    /\ [](\A p \in Procs :
            Done(p) /\ proc[p].op = "canaryDeploy" /\ CallFailed(proc[p], WeightsCall) =>
                /\ proc[p].res.kind = "returned"
                /\ proc[p].res.success
                /\ proc[p].res.alias = "canary"
                /\ proc[p].res.version = proc[p].deployment.version)
    /\ [][\A p \in Procs : WeightWriteFails(p) => variables' = variables]_vars

\* a successful canaryDeploy for 30 percent, and the persisted weights are
\* not those of 30 percent
C8_Witness ==
    \E p \in Procs :
        /\ Done(p)
        /\ proc[p].op = "canaryDeploy"
        /\ proc[p].pct = 30
        /\ CallFailed(proc[p], WeightsCall)
        /\ proc[p].res.success
        /\ proc[p].res.alias = "canary"
        /\ HasWeights
        /\ variables["CANARY_PERCENT"] = <<"1", "0", "0">>

\* a step of the promotion scheduling of slot p
SchedulingStep(p) ==
    /\ proc[p].pc \in {"getAccountId", "putRule", "putTargets"}
    /\ proc'[p] # proc[p]

\* C9: a canaryDeploy whose promotion scheduling failed (account lookup,
\* rule or target registration) still returns success with alias `canary`
\* and its version, and no step of the scheduling touches the aliases, the
\* environment, the code or the versions.
C9_ScheduleFailureSwallowed ==
    /\ [](\A p \in Procs :
            /\ Done(p)
            /\ proc[p].op = "canaryDeploy"
            /\ \E c \in ScheduleCalls : CallFailed(proc[p], c)
            => /\ proc[p].res.kind = "returned"
               /\ proc[p].res.success
               /\ proc[p].res.alias = "canary"
               /\ proc[p].res.version = proc[p].deployment.version)
    /\ [][\A p \in Procs :
            SchedulingStep(p) => UNCHANGED <<aliases, variables, code, versions>>]_vars

C9_Witness ==
    \E p \in Procs :
        /\ Done(p)
        /\ proc[p].op = "canaryDeploy"
        /\ CallFailed(proc[p], "PutTargets")
        /\ proc[p].res.success
        /\ AliasesNamed(aliases, "canary") =
               {[name |-> "canary", ver |-> proc[p].res.version]}
        /\ HasWeights
        /\ rules # {}

(* promoteCanary: what it may have done so far *)
PromoteUpdate(version) == <<"UpdateAlias", "live", version>>
PromoteWait(ms) == <<"setTimeout", ms>>
PromoteScript(version) ==
    <<PromoteUpdate(version), PromoteWait(2000), PromoteUpdate(version),
      PromoteWait(4000), PromoteUpdate(version)>>
IsPrefix(a, b) == Len(a) <= Len(b) /\ \A i \in 1..Len(a) : a[i] = b[i]
Updates(log) == {i \in 1..Len(log) : log[i][1] = "UpdateAlias"}

\* C10: promoteCanary issues the update `live -> version` at most 3 times,
\* always the same one, waits 2000 ms after the first failure and 4000 ms
\* after the second, does not wait after the third, and stops at the first
\* success.
C10_PromoteRetries ==
    LET r == proc[Handler] IN
    r.op = "promoteCanary" =>
        /\ IsPrefix(r.log, PromoteScript(r.ver))
        /\ Cardinality(Updates(r.log)) <= 3
        /\ r.pc = "promote" => Updates(r.log) = r.failed /\ Len(r.log) \in {0, 2, 4}
        /\ r.pc = "backoff" => Updates(r.log) = r.failed /\ Len(r.log) \in {2, 4}
        /\ r.pc = "done" =>
               /\ Len(r.log) \in {1, 3, 5}
               /\ r.res.success <=> Len(r.log) \notin r.failed
               /\ Updates(r.log) \ {Len(r.log)} \subseteq r.failed
               /\ ~r.res.success => Len(r.log) = 5

C10_Witness ==
    LET r == proc[Handler] IN
    /\ r.op = "promoteCanary"
    /\ r.pc = "done"
    /\ r.res.success
    /\ r.log = <<PromoteUpdate(r.ver), PromoteWait(2000), PromoteUpdate(r.ver),
                 PromoteWait(4000), PromoteUpdate(r.ver)>>

(* promoteCanary: how it ends *)
FailedUpdates(r) == {i \in r.failed : r.log[i][1] = "UpdateAlias"}

\* C11 as claimed: after three failed updates promoteCanary hands its caller
\* a value (attempts = 3) and does not raise.
C11_ReturnsPromotionFailed ==
    LET r == proc[Handler] IN
    r.op = "promoteCanary" /\ r.pc = "done" /\ Cardinality(FailedUpdates(r)) = 3 =>
        /\ r.res.kind = "returned"
        /\ r.attempt = 3

\* C11: promoteCanary ends by raising `Canary promotion failed after 3
\* attempts` exactly when three updates have failed, having counted 3
\* attempts; in every other case it ends by resolving, after a successful
\* update.
C11_RaisesAfterThirdFailure ==
    LET r == proc[Handler] IN
    r.op = "promoteCanary" /\ r.pc = "done" =>
        /\ r.res.kind \in {"returned", "thrown"}
        /\ r.res.kind = "thrown" <=> Cardinality(FailedUpdates(r)) = 3
        /\ r.res.kind = "thrown" =>
               /\ r.res.error = "Canary promotion failed after 3 attempts"
               /\ r.attempt = 3
               /\ ~r.res.success
        /\ r.res.kind = "returned" =>
               /\ r.res.success
               /\ Cardinality(FailedUpdates(r)) < 3
               /\ Len(r.log) \notin r.failed

C11_Witness ==
    LET r == proc[Handler] IN
    /\ r.op = "promoteCanary"
    /\ r.pc = "done"
    /\ Cardinality(FailedUpdates(r)) = 3
    /\ r.res.kind = "thrown"
    /\ r.attempt = 3

(* promoteCanary: what a successful promotion leaves *)
Promoted(r) == r.op = "promoteCanary" /\ r.pc = "done" /\ r.res.success

\* C12: when promoteCanary(unit, version) has succeeded, `live` points at
\* version and the canary alias exists and points at the version `live`
\* points at, whatever ran between the scheduling and the firing.
C12_PromotedCanaryAtLive ==
    LET r == proc[Handler] IN
    Promoted(r) =>
        /\ AliasesNamed(aliases, "live") = {[name |-> "live", ver |-> r.ver]}
        /\ AliasesNamed(aliases, "canary") = {[name |-> "canary", ver |-> r.ver]}

\* the part of C12 that holds: a successful promotion leaves `live` at its
\* version, and no step of promoteCanary changes any alias but `live`
C12_PromoteWritesLiveOnly ==
    /\ [](Promoted(proc[Handler]) =>
            AliasesNamed(aliases, "live") = {[name |-> "live", ver |-> proc[Handler].ver]})
    /\ [][proc[Handler].pc \in {"promote", "backoff"} /\ proc'[Handler] # proc[Handler] =>
            /\ AliasesNamed(aliases', "canary") = AliasesNamed(aliases, "canary")
            /\ UNCHANGED <<versions, rules, variables, code>>]_vars

(* rollbackToVersion, and the history read after it *)
ValidRollback(r) ==
    r.op = "rollbackToVersion" /\ UnitNameOk(r.fn) /\ VersionTokenOk(r.target)

\* the invocation in slot p began after a successful rollbackToVersion had
\* returned, and nothing else has run since
FollowsRollback(p) ==
    /\ proc[p].prev.op = "rollbackToVersion"
    /\ proc[p].prev.success
    /\ last = proc[p].prev
    /\ \A q \in AllProcs \ {p} : proc[q].pc = "idle"
    /\ nfires = 0

\* C13: a rollbackToVersion(unit, v) with a valid unit name and version token
\* returns success and leaves exactly one `live` alias, pointing at v, whether
\* or not a `live` alias existed; and the getDeploymentHistory that follows
\* it reports liveVersion = v.
C13_RollbackUpsertsLive ==
    \A p \in Procs :
        /\ Done(p) /\ ValidRollback(proc[p]) =>
               /\ proc[p].res.success
               /\ AliasesNamed(aliases, "live") = {[name |-> "live", ver |-> proc[p].target]}
        /\ Done(p) /\ proc[p].op = "getDeploymentHistory" /\ FollowsRollback(p)
               /\ proc[p].res.kind = "returned" =>
               proc[p].hist.liveVersion = proc[p].prev.version

\* a step of the rollbackToVersion running in slot p
RollbackStep(p) ==
    /\ proc'[p] # proc[p]
    /\ proc[p].op = "rollbackToVersion" \/ proc'[p].op = "rollbackToVersion"

\* C14: no step of rollbackToVersion, whether it ends in success or in
\* failure, changes the canary alias, the persisted traffic weights, the
\* published versions, the registered rules or the code; of the aliases it
\* changes at most `live`, and when it fails it changes nothing at all.
C14_RollbackFrame ==
    [][\A p \in Procs :
          RollbackStep(p) =>
              /\ AliasesNamed(aliases', "canary") = AliasesNamed(aliases, "canary")
              /\ {a \in aliases' : a.name # "live"} = {a \in aliases : a.name # "live"}
              /\ UNCHANGED <<variables, versions, rules, code, accountId>>
              /\ proc'[p].pc = "done" /\ ~proc'[p].res.success => aliases' = aliases]_vars

C14_Witness ==
    \E p \in Procs :
        /\ Done(p)
        /\ ValidRollback(proc[p])
        /\ proc[p].res.success
        /\ AliasesNamed(aliases, "live") = {[name |-> "live", ver |-> proc[p].target]}
        /\ \E a \in AliasesNamed(aliases, "canary") : a.ver # proc[p].target
        /\ HasWeights
        /\ rules # {}

(* getDeploymentHistory: what it reports *)
Reported(p) ==
    Done(p) /\ proc[p].op = "getDeploymentHistory" /\ proc[p].res.kind = "returned"

\* C15: getDeploymentHistory returns the versions of the unit as listed,
\* reports the last listed one as currentVersion, reports the version `live`
\* points at as liveVersion when that alias exists, and reports the last
\* listed version as liveVersion only when no `live` alias exists.
C15_HistoryReport ==
    \A p \in Procs :
        Reported(p) =>
            LET h == proc[p].hist IN
            /\ Len(h.versions) >= 1
            /\ IsPrefix(h.versions, ListedVersions)
            /\ h.currentVersion = h.versions[Len(h.versions)]
            /\ AliasesNamed(aliases, "live") # {} =>
                   h.liveVersion \in {a.ver : a \in AliasesNamed(aliases, "live")}
            /\ AliasesNamed(aliases, "live") = {} =>
                   h.liveVersion = h.versions[Len(h.versions)]

\* the part of C15 that holds: no step of getDeploymentHistory changes the
\* unit, and when the read of `live` succeeds liveVersion is what it read
C15_HistoryReadsOnly ==
    /\ [][\A p \in Procs :
            proc'[p] # proc[p]
            /\ (proc[p].op = "getDeploymentHistory" \/ proc'[p].op = "getDeploymentHistory")
            => UNCHANGED backend]_vars
    /\ [](\A p \in Procs :
            Reported(p) /\ ~CallFailed(proc[p], "GetAlias") =>
                /\ proc[p].hist.liveVersion \in {a.ver : a \in AliasesNamed(aliases, "live")}
                /\ proc[p].hist.currentVersion = proc[p].hist.versions[Len(proc[p].hist.versions)])

(* blueGreenDeploy: a publish followed by a failed alias step *)
AliasStepFailed(r) ==
    r.op = "blueGreenDeploy" /\ r.pc = "done" /\ CallFailed(r, "CreateAlias")

\* a step of the blueGreenDeploy running in slot p
BlueGreenStep(p) ==
    /\ proc'[p] # proc[p]
    /\ proc[p].op = "blueGreenDeploy" \/ proc'[p].op = "blueGreenDeploy"

\* C16: a blueGreenDeploy whose alias step failed after its publish returns a
\* failed result carrying the error, the version it published is still among
\* the versions of the unit, and no step of it has moved, created or removed
\* the `live` alias: a blueGreenDeploy writes an alias only in the step that
\* ends it in success.
C16_FailedAliasStep ==
    /\ [](\A p \in Procs :
            AliasStepFailed(proc[p]) =>
                /\ proc[p].res.kind = "returned"
                /\ ~proc[p].res.success
                /\ proc[p].res.error # NoError
                /\ proc[p].ver # Undef
                /\ \E i \in 1..Len(versions) : versions[i].Version = proc[p].ver)
    /\ [][\A p \in Procs :
            BlueGreenStep(p) /\ aliases' # aliases =>
                proc'[p].pc = "done" /\ proc'[p].res.success]_vars

C16_Witness ==
    \E p \in Procs :
        /\ AliasStepFailed(proc[p])
        /\ ~proc[p].res.success
        /\ proc[p].ver = <<"2">>
        /\ \E i \in 1..Len(versions) : versions[i].Version = <<"2">>
        /\ aliases = {[name |-> "live", ver |-> <<"1">>]}

(* the name check, seen from the caller of a workflow *)
NameMessages ==
    {"Function name must contain only alphanumeric characters, hyphens, and underscores",
     "Invalid function name: must contain only alphanumeric characters, hyphens, and underscores",
     "Function name must be 64 characters or less"}
NameRefused(r) ==
    /\ r.pc = "done"
    /\ r.log = <<>>
    /\ ~r.res.success
    /\ r.res.error \in NameMessages
FirstCalls == {"updateCode", "rollback", "listVersions"}
OtherInputsOk(r) ==
    /\ r.op \in DeployOps => ArtifactOk(r.size)
    /\ r.op = "canaryDeploy" => CanaryParamsOk(r)
    /\ r.op = "rollbackToVersion" => VersionTokenOk(r.target)

\* C17: a workflow given a unit name refuses it, before any external call
\* and with a message about the name, exactly when the name is not made of 1
\* to 64 characters from [A-Za-z0-9_-]; every other name passes the check,
\* and the workflow, its other inputs being valid, goes on to its first
\* external call.
C17_NameAcceptedIffWellFormed ==
    \A p \in Procs :
        proc[p].op \in DeployOps \cup {"rollbackToVersion", "getDeploymentHistory"}
        /\ proc[p].log = <<>> /\ proc[p].pc \in FirstCalls \cup {"done"} =>
            /\ NameRefused(proc[p]) <=> ~UnitNameOk(proc[p].fn)
            /\ OtherInputsOk(proc[p]) => (proc[p].pc \in FirstCalls <=> UnitNameOk(proc[p].fn))
            /\ NameRefused(proc[p]) /\ Len(proc[p].fn) <= 64 =>
                   proc[p].res.error # "Function name must be 64 characters or less"

C17_Witness ==
    \E p \in Procs :
        /\ proc[p].op = "canaryDeploy"
        /\ Len(proc[p].fn) = 64
        /\ proc[p].fn[64] = "_"
        /\ proc[p].pc = "updateCode"

(* the parameter ranges of the design document; NaN lies in no interval *)
Within(x, lo, hi) == x # NaN /\ lo <= x /\ x <= hi
AtLeast(x, lo) == x # NaN /\ lo <= x
ParamsInRange(r) ==
    /\ Within(r.pct, 1, 100)
    /\ Within(r.dur, 1, 1440)
    /\ Within(r.err, 0, 1000)
    /\ AtLeast(r.lat, 0)
ParamMessages ==
    {"Duration must be between 1 and 1440 minutes (24 hours)",
     "Traffic percentage must be between 1 and 100",
     "Error rate must be between 0 and 1",
     "Latency must be positive"}
ParamsRefused(r) ==
    /\ r.pc = "done"
    /\ r.log = <<>>
    /\ r.res.kind = "returned"
    /\ ~r.res.success
    /\ r.res.error \in ParamMessages
CanaryChecked(r) ==
    /\ r.op = "canaryDeploy"
    /\ UnitNameOk(r.fn)
    /\ ArtifactOk(r.size)
    /\ r.log = <<>>
    /\ r.pc \in {"updateCode", "done"}

\* C18: a canaryDeploy with a valid unit name returns a failed result before
\* any external call exactly when trafficPercent is not in [1,100], or
\* duration is not in [1,1440], or the error-rate threshold is not in [0,1],
\* or the latency threshold is not at least 0; with all four in range it
\* passes the check and goes on to its first external call.
C18_ParamsRefusedIffOutOfRange ==
    \A p \in Procs :
        CanaryChecked(proc[p]) =>
            /\ ParamsRefused(proc[p]) <=> ~ParamsInRange(proc[p])
            /\ proc[p].pc = "updateCode" <=> ParamsInRange(proc[p])

\* the part of C18 that holds: for parameters none of which is NaN, the
\* check refuses exactly the tuples with a value out of its range
C18_NumbersRefusedIffOutOfRange ==
    \A p \in Procs :
        CanaryChecked(proc[p])
        /\ NaN \notin {proc[p].pct, proc[p].dur, proc[p].err, proc[p].lat} =>
            /\ ParamsRefused(proc[p]) <=> ~ParamsInRange(proc[p])
            /\ proc[p].pc = "updateCode" <=> ParamsInRange(proc[p])

(* the external calls of one canaryDeploy, in the order it issued them *)
Calls(r, names) == {i \in 1..Len(r.log) : r.log[i][1] \in names}
Before(r, first, then) ==
    \A j \in Calls(r, then) : \A i \in Calls(r, first) : i < j
Completed(r, names) == Calls(r, names) \ r.failed
AliasWrites == {"UpdateAlias", "CreateAlias"}
TimerCalls == {"PutRule", "PutTargets"}

\* C19: in one canaryDeploy the publish comes before every alias write, every
\* alias write before the traffic-weight write, the traffic-weight write
\* before the rule and the rule before its target; an alias write is issued
\* only after the publish has succeeded, the weight write only after an alias
\* write has succeeded, the rule only after the weight write has returned,
\* and none of these calls is issued twice.
C19_CanaryOrder ==
    \A p \in Procs :
        LET r == proc[p] IN
        r.op = "canaryDeploy" =>
            /\ Before(r, {"PublishVersion"}, AliasWrites)
            /\ Before(r, AliasWrites, {WeightsCall})
            /\ Before(r, {WeightsCall}, {"GetCallerIdentity"} \cup TimerCalls)
            /\ Before(r, {"PutRule"}, {"PutTargets"})
            /\ Calls(r, AliasWrites) # {} => Completed(r, {"PublishVersion"}) # {}
            /\ Calls(r, {WeightsCall}) # {} => Completed(r, AliasWrites) # {}
            /\ Calls(r, TimerCalls) # {} => Calls(r, {WeightsCall}) # {}
            /\ Calls(r, {"PutTargets"}) # {} => Completed(r, {"PutRule"}) # {}
            /\ \A c \in {"PublishVersion", "UpdateAlias", "CreateAlias", WeightsCall,
                         "PutRule", "PutTargets"} : Cardinality(Calls(r, {c})) <= 1
            /\ r.pc = "done" /\ Calls(r, {"PublishVersion"}) \subseteq r.failed =>
                   Calls(r, AliasWrites \cup {WeightsCall} \cup TimerCalls) = {}
            /\ r.pc = "done" /\ Calls(r, AliasWrites) \subseteq r.failed =>
                   Calls(r, {WeightsCall} \cup TimerCalls) = {}

C19_Witness ==
    \E p \in Procs :
        /\ Done(p)
        /\ proc[p].op = "canaryDeploy"
        /\ proc[p].log = <<<<"UpdateFunctionCode">>, <<"PublishVersion">>, <<"PutMetricData">>,
                           <<"UpdateAlias", "canary", proc[p].ver>>,
                           <<"CreateAlias", "canary", proc[p].ver>>,
                           <<"UpdateFunctionConfiguration">>, <<"GetCallerIdentity">>,
                           <<"PutRule">>, <<"PutTargets">>>>
        /\ proc[p].failed = {4}

(* the alias upsert under a concurrent creation *)
UpsertAlias(r) == IF r.op = "blueGreenDeploy" THEN "live" ELSE "canary"

\* the create of invocation r was refused, and no call of the run has failed
\* by a fault: the alias was absent when r looked, and was created by another
\* invocation before r's create
LostCreateRace(r) ==
    /\ r.op \in {"blueGreenDeploy", "canaryDeploy"}
    /\ CallFailed(r, "CreateAlias")
    /\ nfaults = 0

\* C20: a blueGreenDeploy or canaryDeploy whose create was refused because
\* another invocation had created the alias in the meantime falls back to an
\* update and ends in success, its alias pointing at its version.
C20_CreateRaceTolerated ==
    \A p \in Procs :
        Done(p) /\ LostCreateRace(proc[p]) =>
            /\ proc[p].res.success
            /\ AliasesNamed(aliases, UpsertAlias(proc[p])) =
                   {[name |-> UpsertAlias(proc[p]), ver |-> proc[p].ver]}

\* what the code does in that race: the refused create ends the workflow in
\* failure, and the alias stays with the invocation that created it
C20_CreateRaceLost ==
    \A p \in Procs :
        Done(p) /\ LostCreateRace(proc[p]) =>
            /\ ~proc[p].res.success
            /\ proc[p].res.error # NoError
            /\ proc[p].log[Len(proc[p].log)][1] = "CreateAlias"
            /\ \E a \in AliasesNamed(aliases, UpsertAlias(proc[p])) : a.ver # proc[p].ver

(* the persisted weights as one write *)
WeightKeys == {"TRAFFIC_WEIGHTS", "CANARY_PERCENT", "LIVE_PERCENT"}
\* what one configuration update for p percent persists
WrittenFor(p) ==
    /\ variables["TRAFFIC_WEIGHTS"]["canary"] = <<p, 100>>
    /\ variables["TRAFFIC_WEIGHTS"]["live"] = <<100 - p, 100>>
    /\ ParseInt(variables["CANARY_PERCENT"]) = p
    /\ ParseInt(variables["LIVE_PERCENT"]) = 100 - p
\* the percentages of the canaryDeploy calls that have issued their weight
\* write, those in flight and the one that returned last
WritersInFlight ==
    {proc[p].pct : p \in {q \in Procs : proc[q].op = "canaryDeploy"
                                        /\ Calls(proc[q], {WeightsCall}) \ proc[q].failed # {}}}

\* C21: the three weight entries are present together or absent together;
\* when present they are those of one percentage p in 1..100 (canary p/100,
\* live (100-p)/100, summing to 1), never the canary side of one call with
\* the live side of another; and a step that changes any of them writes all
\* three or removes all three.
C21_WeightsWrittenTogether ==
    /\ [](/\ WeightKeys \cap DOMAIN variables \in {{}, WeightKeys}
          /\ HasWeights =>
                 /\ \E p \in 1..100 : WrittenFor(p)
                 /\ variables["TRAFFIC_WEIGHTS"]["canary"][1]
                        + variables["TRAFFIC_WEIGHTS"]["live"][1] = 100)
    /\ [][variables' # variables =>
            \/ WeightKeys \cap DOMAIN variables' = {}
            \/ /\ WeightKeys \subseteq DOMAIN variables'
               /\ \E q \in Procs :
                    /\ proc[q].pc = "setWeights"
                    /\ proc'[q].pc = "getAccountId"
                    /\ variables'["TRAFFIC_WEIGHTS"]["canary"] = <<proc[q].pct, 100>>
                    /\ variables'["TRAFFIC_WEIGHTS"]["live"] = <<100 - proc[q].pct, 100>>
                    /\ ParseInt(variables'["CANARY_PERCENT"]) = proc[q].pct
                    /\ ParseInt(variables'["LIVE_PERCENT"]) = 100 - proc[q].pct]_vars

\* two overlapping canaryDeploy calls for different percentages have both
\* written their weights
C21_Witness ==
    /\ HasWeights
    /\ WrittenFor(30)
    /\ WritersInFlight = {30, 100}

(* overlapping canaryDeploy calls *)
CanaryAliasWrite(p) ==
    /\ proc[p].op = "canaryDeploy"
    /\ proc[p].pc \in {"updateCanary", "createCanary"}
    /\ proc'[p].pc = "setWeights"
CanaryWeightWrite(p) ==
    /\ proc[p].op = "canaryDeploy"
    /\ proc[p].pc = "setWeights"
    /\ proc'[p].pc = "getAccountId"
    /\ ~CallFailed(proc'[p], WeightsCall)
PastWrites == {"getAccountId", "putRule", "putTargets", "done"}

\* C22: the last writer wins, and nothing makes a canaryDeploy wait for
\* another: an alias write of a canaryDeploy leaves `canary` at that call's
\* version whatever another call wrote before, a weight write leaves the
\* weights of that call's percentage, the `canary` alias changes in no other
\* step, and a call that has made both writes changes neither again.
C22_LastWriterWins ==
    [][/\ \A p \in Procs :
            /\ CanaryAliasWrite(p) =>
                   AliasesNamed(aliases', "canary") =
                       {[name |-> "canary", ver |-> proc[p].deployment.version]}
            /\ CanaryWeightWrite(p) =>
                   /\ variables'["TRAFFIC_WEIGHTS"]["canary"] = <<proc[p].pct, 100>>
                   /\ ParseInt(variables'["CANARY_PERCENT"]) = proc[p].pct
            /\ proc[p].pc \in PastWrites /\ proc'[p] # proc[p] =>
                   UNCHANGED <<aliases, variables>>
       /\ AliasesNamed(aliases', "canary") # AliasesNamed(aliases, "canary") =>
              \E p \in Procs : CanaryAliasWrite(p)]_vars

\* two canaryDeploy calls have made all their writes, one has ended and the
\* other is registering its rule: the alias is at the version of the one and
\* the weights are those of the other
C22_Witness ==
    \E p, q \in Procs :
        /\ p # q
        /\ proc[p].op = "canaryDeploy" /\ proc[q].op = "canaryDeploy"
        /\ proc[p].pc = "done" /\ proc[p].res.success
        /\ proc[q].pc \in {"putRule", "putTargets"}
        /\ proc[p].pct = 100 /\ proc[q].pct = 30
        /\ proc[p].ver # proc[q].ver
        /\ ~CallFailed(proc[p], WeightsCall) /\ ~CallFailed(proc[q], WeightsCall)
        /\ AliasesNamed(aliases, "canary") = {[name |-> "canary", ver |-> proc[p].ver]}
        /\ HasWeights
        /\ WrittenFor(30)

(* the promotion rule as a task of the scheduler *)

\* C23: a registered promotion rule invokes the promotion handler once and
\* is then consumed: no rule fires a second time.
C23_RuleFiresOnce ==
    \A x \in rules : x.fired <= 1

\* what the code registers: a rule with a rate() schedule, which stays
\* registered after it has fired; a firing leaves its period and its target
\* as they were
C23_RuleStaysRegistered ==
    [][/\ \A x \in rules : \E y \in rules' : y.name = x.name /\ y.fired >= x.fired
       /\ nfires' # nfires =>
              \E x \in rules :
                  rules' = (rules \ {x}) \cup {[x EXCEPT !.fired = x.fired + 1]}]_vars

(* aliases and the versions they point at *)
Published(ver) == \E i \in 1..Len(versions) : versions[i].Version = ver

PublishCompleted(p) ==
    \E i \in Completed(proc'[p], {"PublishVersion"}) : i > Len(proc[p].log)

TargetsCompleted(p) ==
    /\ proc[p].op = "canaryDeploy"
    /\ \E i \in Completed(proc'[p], {"PutTargets"}) : i > Len(proc[p].log)

\* C26 as stated: no step removes a registered rule or replaces the version
\* a registered rule promotes.
C26_TimersNeverSuperseded ==
    [][\A x \in rules :
           \E y \in rules' :
               /\ y.name = x.name
               /\ x.target # Undef => y.target = x.target]_vars

\* C26: no step removes a registered rule, so the set of rule names only
\* grows and a rule keeps firing; the version a rule promotes is replaced
\* only by the PutTargets of a canaryDeploy whose Date.now() reading repeats
\* the name of that rule, never by a rollback, a blue-green deployment, a
\* promotion or a history read.  Hence a rule registered for version 1 can
\* fire after a later blueGreenDeploy made `live` point at version 2, and
\* promoteCanary then repoints `live` to version 1.
C26_TimersNeverCancelled ==
    [][\A x \in rules :
           \E y \in rules' :
               /\ y.name = x.name
               /\ y.fired >= x.fired
               /\ y.target # x.target =>
                      \E p \in Procs :
                          /\ TargetsCompleted(p)
                          /\ proc[p].rule = x.name
                          /\ y.target = proc[p].deployment.version]_vars

C26_Witness ==
    /\ ncalls = 2
    /\ last = [op |-> "blueGreenDeploy", success |-> TRUE, version |-> <<"2">>]
    /\ Promoted(proc[Handler])
    /\ proc[Handler].ver = <<"1">>
    /\ \E x \in rules : x.name = proc[Handler].rule /\ x.target = <<"1">> /\ x.fired = 1
    /\ AliasesNamed(aliases, "live") = {[name |-> "live", ver |-> <<"1">>]}
    /\ AliasesNamed(aliases, "canary") = {[name |-> "canary", ver |-> <<"1">>]}

(* failures inside deployWithVersioning *)
FailedIn(p, pcs) ==
    /\ proc[p].pc \in pcs
    /\ \E i \in proc'[p].failed : i > Len(proc[p].log)

CodeReplaced(p) ==
    /\ proc[p].pc = "updateCode"
    /\ \E i \in Completed(proc'[p], {"UpdateFunctionCode"}) : i > Len(proc[p].log)

\* C27: the step in which a call's UpdateFunctionCode succeeds makes the
\* unit's unpublished code the call's artifact; the step in which its
\* configuration update or its publish then fails changes neither the code,
\* nor the environment map, nor the version list, and ends the call with a
\* failed result that carries no version; returning a result changes nothing
\* either.  So the replacement is never undone by the failed call.
C27_NoUndoAfterFailedDeployment ==
    [][\A p \in Procs :
           /\ CodeReplaced(p) => code' = proc[p].size
           /\ FailedIn(p, {"updateConfig", "publish"}) =>
                  /\ code' = code
                  /\ variables' = variables
                  /\ versions' = versions
                  /\ proc'[p].pc = "done"
                  /\ ~proc'[p].res.success
                  /\ proc'[p].res.version = Undef
                  /\ Completed(proc'[p], {"UpdateFunctionCode"}) # {}
           /\ Done(p) => code' = code /\ variables' = variables]_vars

C27_Witness ==
    \E p \in Procs :
        /\ Done(p)
        /\ proc[p].op = "deployWithVersioning"
        /\ CallFailed(proc[p], "PublishVersion")
        /\ ~proc[p].res.success
        /\ proc[p].res.version = Undef
        /\ versions = <<>>
        /\ code = proc[p].size
        /\ code = MaxCodeSize

(* the environment map *)
WeightsWritten(p) ==
    /\ proc[p].pc = "setWeights"
    /\ \E i \in Completed(proc'[p], {WeightsCall}) : i > Len(proc[p].log)

\* C28: the step in which the weight write of a canaryDeploy succeeds leaves
\* the environment map with exactly the keys TRAFFIC_WEIGHTS, CANARY_PERCENT
\* and LIVE_PERCENT: every entry the map had before under another key (the
\* map an earlier deployWithVersioning set) is gone.
C28_WeightWriteReplacesEnvironment ==
    [][\A p \in Procs :
           WeightsWritten(p) =>
               /\ DOMAIN variables' = WeightKeys
               /\ \A k \in DOMAIN variables \ WeightKeys : k \notin DOMAIN variables']_vars

C28_Witness ==
    \E p, q \in Procs :
        /\ proc[q].op = "deployWithVersioning"
        /\ proc[q].cfg
        /\ Completed(proc[q], {"UpdateFunctionConfiguration"}) # {}
        /\ proc[p].op = "canaryDeploy"
        /\ Completed(proc[p], {WeightsCall}) # {}
        /\ DOMAIN variables = WeightKeys
        /\ DOMAIN CallerVariables \cap DOMAIN variables = {}

(* which workflow writes what *)
StepOf(p, op) == proc[p].op = op /\ proc'[p] # proc[p]
WeightPart(v) == [k \in WeightKeys \cap DOMAIN v |-> v[k]]
SameAlias(name) == AliasesNamed(aliases', name) = AliasesNamed(aliases, name)

\* C29 as stated: no step of a canaryDeploy changes the `live` alias, and no
\* step of a blueGreenDeploy changes the `canary` alias or the weight entries
\* of the environment map.
C29_WorkflowsKeepApart ==
    [][\A p \in Procs :
           /\ StepOf(p, "canaryDeploy") => SameAlias("live")
           /\ StepOf(p, "blueGreenDeploy") =>
                  /\ SameAlias("canary")
                  /\ WeightPart(variables') = WeightPart(variables)]_vars

\* C29: no step of a canaryDeploy changes the `live` alias, and no step of a
\* blueGreenDeploy changes the `canary` alias; a blueGreenDeploy never writes
\* weight entries, but the configuration update of one called with an
\* environment map replaces the whole map and so removes all three weight
\* entries; every other step of it leaves them as they are.  The persisted
\* weights always name a `live` participant, whether or not a `live` alias
\* exists.
C29_WorkflowsKeepApartButEnvironment ==
    /\ [](HasWeights => DOMAIN variables["TRAFFIC_WEIGHTS"] = {"live", "canary"})
    /\ [][\A p \in Procs :
              /\ StepOf(p, "canaryDeploy") => SameAlias("live")
              /\ StepOf(p, "blueGreenDeploy") =>
                     /\ SameAlias("canary")
                     /\ \/ WeightPart(variables') = WeightPart(variables)
                        \/ /\ proc[p].pc = "updateConfig"
                           /\ proc[p].cfg
                           /\ WeightKeys \cap DOMAIN variables' = {}]_vars

C29_Witness ==
    \E p \in Procs :
        /\ Done(p)
        /\ proc[p].op = "canaryDeploy"
        /\ proc[p].res.success
        /\ Completed(proc[p], {WeightsCall}) # {}
        /\ HasWeights
        /\ "live" \in DOMAIN variables["TRAFFIC_WEIGHTS"]
        /\ AliasesNamed(aliases, "live") = {}
        /\ AliasesNamed(aliases, "canary") # {}

(* executeWithFailover *)
Started == failover.pc \in {"loop", "wait", "returned", "thrown"}
Ended == failover.pc \in {"returned", "thrown"}

\* the configured regions that have a client
ClientRegions ==
    {failover.regions[i] : i \in {j \in 1..Len(failover.regions) :
                                     failover.regions[j].region \in failover.clients}}

\* lower number = higher priority; a region without a priority comes last
RawPriority(r) == IF r.priority = NoPriority THEN DefaultPriority ELSE r.priority

\* the arrangements of the clients in priority order under a reading of priority
PriorityOrders(key(_)) ==
    {s \in [1..Cardinality(ClientRegions) -> ClientRegions] :
        /\ \A i, j \in DOMAIN s : s[i] = s[j] => i = j
        /\ \A i, j \in DOMAIN s : i < j => key(s[i]) <= key(s[j])}

\* attempts that have failed so far
FailedAttempts == Len(failover.invoked) - (IF failover.pc = "returned" THEN 1 ELSE 0)
Smaller(a, b) == IF a < b THEN a ELSE b

FailoverContract(key(_)) ==
    Started =>
        /\ Len(failover.invoked) <= failover.retries + 1
        /\ \E order \in PriorityOrders(key) :
               \A k \in 1..Len(failover.invoked) :
                   failover.invoked[k] = order[((k - 1) % Len(order)) + 1].region
        /\ Len(failover.notified) =
               IF failover.notify /\ failover.retries >= 0
               THEN Smaller(FailedAttempts, failover.retries) ELSE 0
        /\ \A k \in 1..Len(failover.notified) :
               /\ failover.notified[k][1] = failover.invoked[k]
               /\ failover.notified[k][3] = <<"operation failed", k - 1>>
        /\ failover.pc = "returned" =>
               failover.outcome = <<"result", Len(failover.invoked) - 1>>
        /\ failover.pc = "thrown" /\ failover.invoked # <<>> =>
               /\ Len(failover.invoked) = failover.retries + 1
               /\ failover.outcome = <<"operation failed", Len(failover.invoked) - 1>>
        /\ ClientRegions = {} => failover.invoked = <<>> /\ failover.pc # "returned"

\* C30: executeWithFailover invokes the operation at most maxRetries + 1
\* times; attempt k (from 0) goes to the client at index k modulo the number
\* of clients, the clients taken in priority order (lower number first, a
\* region without priority last); the first success is returned and ends the
\* call; onFailover is told once of each failed attempt but the last allowed;
\* when every attempt has failed the error thrown is that of the last
\* attempt; with no clients the call throws and the operation is never invoked.
C30_FailoverContract == FailoverContract(RawPriority)

\* the same with the order getAllClients computes, in which priority 0 is
\* read as no priority
C30_FailoverContractZeroAsUnset == FailoverContract(EffectivePriority)

\* every call ends: it returns or throws
C30_Terminates == (failover.pc = "loop") ~> Ended

\* the attempts left never grow, and an ended call does nothing more
C30_AttemptsRunOut ==
    [][/\ Started => failover'.retries = failover.retries
                     /\ failover'.attempt >= failover.attempt
                     /\ (failover'.attempt <= failover.retries + 1 \/ failover.retries < 0)
       /\ Ended => failover' = failover]_vars

====
